---- MODULE Spec2Model ----
(***************************************************************************)
(* Model of veclist: `VecList<T>`, a Vec of slots with an embedded LIFO    *)
(* free list (src/src/lib.rs).                                             *)
(*                                                                         *)
(* Indices are 0-based as in the source; slot i of `data` is data[i + 1].  *)
(* Option<X> is modelled as a sequence: None is << >>, Some(x) is <<x>>.   *)
(***************************************************************************)
EXTENDS Integers, Sequences, FiniteSets, TLC

\* ---------------------------------------------------------------- bounds
\* Largest number of slots the free exploration (Spec) lets `data` grow to.
MaxLen == 4
\* Largest value pushed by the free exploration: values are 0..MaxVal.
MaxVal == 1
\* Largest number of pushes / pops of the parametrised test_reuse script.
MaxN == 10
MaxK == 5

\* ------------------------------------------------- constants of the tests
\* tests::test_reuse pushes 0..10, pops 0..5 and pushes i + 10.
TestLen == 10
TestPops == 5

Values == 0..MaxVal

\* ------------------------------------------------------------------ state
VARIABLES
    data,     \* VecList::data : Vec<Node<T>>
    free,     \* VecList::free : Option<usize>
    op,       \* the method called last ("new" after construction)
    arg,      \* its argument (value for push, index for the others)
    ret,      \* what it returned, or Panic
    removed,  \* history: indices popped and not yet reused, oldest first
    log,      \* history: values pushed so far, while no pop has succeeded
    pristine, \* history: no pop has returned a value yet
    held,     \* history: handle -> value, from the push that returned the
              \* handle until pop is called on it
    assigned, \* history: the indices push has returned so far
    live,     \* history: pushes that returned minus pops that returned Some
    cap,      \* capacity of the Vec behind `data`
    twin,     \* a second VecList run through the same calls (SpecCap only)
    test      \* position of the tests::test_reuse script (idle under Spec)

vars == <<data, free, op, arg, ret, removed, log, pristine, held, assigned,
          live, cap, twin, test>>

\* ------------------------------------------------------------ Option, Node
None == << >>
Some(x) == <<x>>

\* enum Node<T> { Vacant(Option<usize>), Occupied(T) }
Vacant(next) == <<"Vacant", next>>
Occupied(value) == <<"Occupied", value>>
IsVacant(node) == node[1] = "Vacant"
IsOccupied(node) == node[1] = "Occupied"

\* results of a call.  A panic unwinds out of the call: ret is Panic and
\* the fields keep whatever the call had written before it panicked.
Panic == <<"Panic">>
RetNone == <<"None">>
RetSome(value) == <<"Some", value>>
RetIndex(index) == <<"Index", index>>

\* self.data.len()
upper_bound(d) == Len(d)

\* self.data[index], index in bounds
At(d, index) == d[index + 1]

\* replace(&mut self.data[index], node)
Replace(d, index, node) == [d EXCEPT ![index + 1] = node]

Last(s) == s[Len(s)]
Range(s) == {s[x] : x \in DOMAIN s}
Without(s, x) == SelectSeq(s, LAMBDA y : y /= x)

\* ------------------------------------------------------------- operations
\* VecList::new
New ==
    /\ data = << >>
    /\ free = None
    /\ op = "new" /\ arg = 0 /\ ret = RetNone
    /\ removed = << >> /\ log = << >> /\ pristine = TRUE
    /\ held = << >>
    /\ assigned = {} /\ live = 0
    /\ cap = 0

\* mutant of the reuse branch: self.free is cleared, the link is dropped
PushReuse_SkipLink(value) ==
    LET f == free[1] IN
    /\ free /= None
    /\ IF f >= Len(data)
       THEN /\ ret' = Panic
            /\ UNCHANGED <<data, free>>
       ELSE LET old == At(data, f) IN
            /\ data' = Replace(data, f, Occupied(value))
            /\ IF IsVacant(old)
               THEN /\ free' = None
                    /\ ret' = RetIndex(f)
               ELSE /\ ret' = Panic
                    /\ UNCHANGED free
    /\ UNCHANGED cap

\* VecList::push when self.free is Some(f)
PushReuse(value) ==
    LET f == free[1] IN
    /\ free /= None
    /\ IF f >= Len(data)
       THEN \* debug_assert!(free < len) / index out of bounds
            /\ ret' = Panic
            /\ UNCHANGED <<data, free>>
       ELSE LET old == At(data, f) IN
            /\ data' = Replace(data, f, Occupied(value))
            /\ IF IsVacant(old)
               THEN \* replace(&mut self.free, old.expect_vacant()).unwrap()
                    /\ free' = old[2]
                    /\ ret' = RetIndex(f)
               ELSE \* expect_vacant panics after the slot was overwritten
                    /\ ret' = Panic
                    /\ UNCHANGED free
    /\ UNCHANGED cap

\* Vec::push on a full Vec reallocates: the capacity at least doubles and
\* is at least 4
Grow(c) == IF 2 * c > 4 THEN 2 * c ELSE 4

\* mutant of the append branch: returns the length after the append
PushAppend_LenAfter(value) ==
    /\ free = None
    /\ data' = Append(data, Occupied(value))
    /\ ret' = RetIndex(Len(data'))
    /\ cap' = IF Len(data) < cap THEN cap ELSE Grow(cap)
    /\ UNCHANGED free

\* VecList::push when self.free is None
PushAppend(value) ==
    /\ free = None
    /\ data' = Append(data, Occupied(value))
    /\ ret' = RetIndex(Len(data') - 1)
    /\ cap' = IF Len(data) < cap THEN cap ELSE Grow(cap)
    /\ UNCHANGED free

\* what the caller of push records: the handle it got and the value it gave
PushHistory(value) ==
    IF ret' = Panic
    THEN UNCHANGED <<removed, held, log, pristine, assigned, live>>
    ELSE LET index == ret'[2] IN
         /\ assigned' = assigned \cup {index}
         /\ live' = live + 1
         /\ removed' = Without(removed, index)
         /\ held' = [j \in DOMAIN held \cup {index} |->
                        IF j = index THEN value ELSE held[j]]
         /\ log' = IF pristine THEN Append(log, value) ELSE log
         /\ UNCHANGED pristine

\* VecList::push
push(value) ==
    /\ op' = "push" /\ arg' = value
    /\ PushReuse(value) \/ PushAppend(value)
    /\ PushHistory(value)

\* mutant of Node::free: the freed node is not linked to the old free head
NodeFree_NoLink(node, next) ==
    IF IsVacant(node)
    THEN <<node, None>>
    ELSE <<Vacant(None), Some(node[2])>>

\* mutant of Node::free: the node is relinked before its tag is tested
NodeFree_RelinkFirst(node, next) ==
    IF IsVacant(node)
    THEN <<Vacant(next), None>>
    ELSE <<Vacant(next), Some(node[2])>>

\* mutant of Node::free: the value is copied out and the node stays occupied
NodeFree_KeepNode(node, next) ==
    IF IsVacant(node)
    THEN <<node, None>>
    ELSE <<node, Some(node[2])>>

\* Node::free: the node afterwards and the value taken out of it
NodeFree(node, next) ==
    IF IsVacant(node)
    THEN <<node, None>>
    ELSE <<Vacant(next), Some(node[2])>>

\* VecList::pop: the bounds test `index > self.data.len()`
PopOutOfBounds(d, index) == index > Len(d)

\* mutant of pop: the slot is taken out of the Vec, as Vec::remove does
PopCall_ShiftRemove(index) ==
    IF PopOutOfBounds(data, index)
    THEN /\ ret' = RetNone
         /\ UNCHANGED <<data, free>>
    ELSE IF index >= Len(data)
    THEN /\ ret' = Panic
         /\ UNCHANGED <<data, free>>
    ELSE IF IsVacant(At(data, index))
    THEN /\ ret' = RetNone
         /\ UNCHANGED <<data, free>>
    ELSE /\ data' = SubSeq(data, 1, index) \o SubSeq(data, index + 2, Len(data))
         /\ ret' = RetSome(At(data, index)[2])
         /\ UNCHANGED free

\* VecList::pop: the two fields and the result
PopCall(index) ==
    IF PopOutOfBounds(data, index)
    THEN /\ ret' = RetNone
         /\ UNCHANGED <<data, free>>
    ELSE IF index >= Len(data)
    THEN \* self.data[index]: index out of bounds
         /\ ret' = Panic
         /\ UNCHANGED <<data, free>>
    ELSE LET freed == NodeFree(At(data, index), free) IN
         /\ data' = Replace(data, index, freed[1])
         /\ IF freed[2] = None
            THEN /\ ret' = RetNone
                 /\ UNCHANGED free
            ELSE /\ free' = Some(index)
                 /\ ret' = RetSome(freed[2][1])

\* what the caller of pop records: the handle is given up by the call, and
\* the index counts as removed when a value came back
PopHistory(index) ==
    /\ held' = [j \in DOMAIN held \ {index} |-> held[j]]
    /\ UNCHANGED assigned
    /\ IF ret' \in {Panic, RetNone}
       THEN UNCHANGED <<removed, log, pristine, live>>
       ELSE /\ live' = live - 1
            /\ removed' = Append(Without(removed, index), index)
            /\ log' = << >>
            /\ pristine' = FALSE

\* VecList::pop
pop(index) ==
    /\ op' = "pop" /\ arg' = index
    /\ PopCall(index)
    /\ PopHistory(index)
    /\ UNCHANGED cap

\* mutant of VecList::get: the tag of the node is not tested
get_NoTagTest(d, index) ==
    IF index < Len(d)
    THEN RetSome(At(d, index)[2])
    ELSE RetNone

\* VecList::get: self.data.get(index).and_then(Occupied => Some(value))
get(d, index) ==
    IF index < Len(d) /\ IsOccupied(At(d, index))
    THEN RetSome(At(d, index)[2])
    ELSE RetNone

\* VecList::get_mut: same lookup, through a mutable borrow
get_mut(d, index) ==
    IF index < Len(d)
    THEN IF IsVacant(At(d, index)) THEN RetNone ELSE RetSome(At(d, index)[2])
    ELSE RetNone

\* a call of VecList::get
Get(index) ==
    /\ op' = "get" /\ arg' = index
    /\ ret' = get(data, index)
    /\ UNCHANGED <<data, free, removed, log, pristine, held, assigned, live, cap>>

\* a call of VecList::get_mut (the caller does not write through it)
GetMut(index) ==
    /\ op' = "get_mut" /\ arg' = index
    /\ ret' = get_mut(data, index)
    /\ UNCHANGED <<data, free, removed, log, pristine, held, assigned, live, cap>>

\* mutant of Index::index: a vacant or missing slot yields a default value
index_Default(d, i) ==
    IF get(d, i) = RetNone THEN RetSome(0) ELSE get(d, i)

\* Index::index: self.get(index).expect("Expect occupied")
index(d, i) ==
    IF get(d, i) = RetNone THEN Panic ELSE get(d, i)

\* IndexMut::index_mut: self.get_mut(index).expect("Expect occupied")
index_mut(d, i) ==
    IF get_mut(d, i) = RetNone THEN Panic ELSE get_mut(d, i)

\* a use of veclist[i]
Index(i) ==
    /\ op' = "index" /\ arg' = i
    /\ ret' = index(data, i)
    /\ UNCHANGED <<data, free, removed, log, pristine, held, assigned, live, cap>>

\* a use of veclist[i] through a mutable borrow (the caller does not write)
IndexMut(i) ==
    /\ op' = "index_mut" /\ arg' = i
    /\ ret' = index_mut(data, i)
    /\ UNCHANGED <<data, free, removed, log, pristine, held, assigned, live, cap>>

\* ------------------------------------------------- free exploration (Spec)
Idle == [running |-> FALSE, n |-> 0, k |-> 0, pc |-> 0, ok |-> TRUE]

\* indices a caller may pass: in bounds, one past the end, and beyond
Indices == 0..(MaxLen + 1)

\* no second VecList
NoTwin == [turn |-> "none"]

Init ==
    /\ New
    /\ test = Idle
    /\ twin = NoTwin

DoPush ==
    /\ \E value \in Values :
          /\ free = None => Len(data) < MaxLen
          /\ push(value)
    /\ UNCHANGED <<test, twin>>

DoPop == (\E i \in Indices : pop(i)) /\ UNCHANGED <<test, twin>>

DoGet == (\E i \in Indices : Get(i)) /\ UNCHANGED <<test, twin>>

DoGetMut == (\E i \in Indices : GetMut(i)) /\ UNCHANGED <<test, twin>>

DoIndex == (\E i \in Indices : Index(i)) /\ UNCHANGED <<test, twin>>

DoIndexMut == (\E i \in Indices : IndexMut(i)) /\ UNCHANGED <<test, twin>>

Next == DoPush \/ DoPop \/ DoGet \/ DoGetMut \/ DoIndex \/ DoIndexMut

Spec == Init /\ [][Next]_vars

\* ------------------------------------- tests::test_reuse (SpecReuse)
\* The test with its loop bounds as parameters: push 0..n, pop 0..k
\* asserting each pop returns Some(i), push n..n+k.  test.pc counts the
\* calls made so far; test.ok is FALSE once an assert_eq! has failed.
Min(a, b) == IF a < b THEN a ELSE b

InitReuse ==
    /\ New
    /\ \E n \in 0..MaxN : \E k \in 0..Min(n, MaxK) :
          test = [running |-> TRUE, n |-> n, k |-> k, pc |-> 0, ok |-> TRUE]
    /\ twin = NoTwin

\* for i in 0..n { veclist.push(i); }
TestFill ==
    /\ test.running /\ test.ok
    /\ test.pc < test.n
    /\ push(test.pc)
    /\ UNCHANGED twin
    /\ test' = [test EXCEPT !.pc = @ + 1]

\* for i in 0..k { assert_eq!(veclist.pop(i), Some(i)); }
TestDrain ==
    LET i == test.pc - test.n IN
    /\ test.running /\ test.ok
    /\ test.pc >= test.n /\ i < test.k
    /\ pop(i)
    /\ UNCHANGED twin
    /\ test' = [test EXCEPT !.pc = @ + 1, !.ok = (ret' = RetSome(i))]

\* for i in 0..k { veclist.push(i + n); }
TestRefill ==
    LET i == test.pc - test.n - test.k IN
    /\ test.running /\ test.ok
    /\ test.pc >= test.n + test.k /\ i < test.k
    /\ push(i + test.n)
    /\ UNCHANGED twin
    /\ test' = [test EXCEPT !.pc = @ + 1]

NextReuse == TestFill \/ TestDrain \/ TestRefill

SpecReuse == InitReuse /\ [][NextReuse]_vars

\* ------------------------------ new() beside with_capacity(n) (SpecCap)
\* Largest capacity asked of with_capacity.
MaxCap == 2

\* mutant of with_capacity: the reserved slots are created, all vacant
with_capacity_Prefill(c) ==
    /\ data' = [x \in 1..c |-> Vacant(None)]
    /\ free' = None
    /\ cap' = c
    /\ op' = "with_capacity" /\ arg' = c /\ ret' = RetNone
    /\ removed' = << >> /\ log' = << >> /\ pristine' = TRUE
    /\ held' = << >>
    /\ assigned' = {} /\ live' = 0

\* VecList::with_capacity: free None, data an empty Vec of capacity cap
with_capacity(c) ==
    /\ data' = << >>
    /\ free' = None
    /\ cap' = c
    /\ op' = "with_capacity" /\ arg' = c /\ ret' = RetNone
    /\ removed' = << >> /\ log' = << >> /\ pristine' = TRUE
    /\ held' = << >>
    /\ assigned' = {} /\ live' = 0

\* the VecList the variables hold, with its caller's records
Snapshot ==
    [data |-> data, free |-> free, op |-> op, arg |-> arg, ret |-> ret,
     removed |-> removed, log |-> log, pristine |-> pristine, held |-> held,
     assigned |-> assigned, live |-> live, cap |-> cap]

\* the variables hold the VecList s from now on
Restore(s) ==
    /\ data' = s.data /\ free' = s.free
    /\ op' = s.op /\ arg' = s.arg /\ ret' = s.ret
    /\ removed' = s.removed /\ log' = s.log /\ pristine' = s.pristine
    /\ held' = s.held /\ assigned' = s.assigned /\ live' = s.live
    /\ cap' = s.cap

\* let a = VecList::new(); the second constructor call is still to come
InitCap ==
    /\ New
    /\ test = Idle
    /\ twin = [turn |-> "construct"]

\* let b = VecList::with_capacity(c); a is set aside in twin.s
CapConstruct ==
    /\ twin.turn = "construct"
    /\ twin' = [turn |-> "even", s |-> Snapshot]
    /\ \E c \in 0..MaxCap : with_capacity(c)
    /\ UNCHANGED test

\* both have seen the same calls: the one at hand makes the next call
CapPush ==
    /\ twin.turn = "even"
    /\ \E value \in Values :
          /\ free = None => Len(data) < MaxLen
          /\ push(value)
    /\ twin' = [twin EXCEPT !.turn = "ahead"]
    /\ UNCHANGED test

CapPop ==
    /\ twin.turn = "even"
    /\ \E i \in Indices : pop(i)
    /\ twin' = [twin EXCEPT !.turn = "ahead"]
    /\ UNCHANGED test

CapGet ==
    /\ twin.turn = "even"
    /\ \E i \in Indices : Get(i)
    /\ twin' = [twin EXCEPT !.turn = "ahead"]
    /\ UNCHANGED test

\* the one that made the call is set aside, the other one is taken up
CapSwap ==
    /\ twin.turn = "ahead"
    /\ Restore(twin.s)
    /\ twin' = [turn |-> "behind", s |-> Snapshot]
    /\ UNCHANGED test

\* the one at hand makes the call the other one made last
CapReplay ==
    /\ twin.turn = "behind"
    /\ \/ twin.s.op = "push" /\ push(twin.s.arg)
       \/ twin.s.op = "pop" /\ pop(twin.s.arg)
       \/ twin.s.op = "get" /\ Get(twin.s.arg)
    /\ twin' = [twin EXCEPT !.turn = "even"]
    /\ UNCHANGED test

NextCap == CapConstruct \/ CapPush \/ CapPop \/ CapGet \/ CapSwap \/ CapReplay

SpecCap == InitCap /\ [][NextCap]_vars

\* the script has made all its calls
TestDone == test.running /\ test.ok /\ test.pc = test.n + 2 * test.k

\* the run of the script with the loop bounds tests::test_reuse uses
TestReuseDone == TestDone /\ test.n = TestLen /\ test.k = TestPops

\* ------------------------------------------------------------------ claims

\* C3: after test_reuse (push 0..9, pop 0,1,2,3,4, push 10..14) every index
\* i in 0..4 is occupied and holds 14 - i, indices 5..9 still hold 5..9 and
\* upper_bound() is still 10.
C3_ReuseScenario ==
    TestReuseDone =>
        /\ upper_bound(data) = TestLen
        /\ \A i \in 0..(TestPops - 1) : get(data, i) = RetSome(14 - i)
        /\ \A i \in TestPops..(TestLen - 1) : get(data, i) = RetSome(i)

\* the last push of test_reuse has returned: 14 went to index 0
C3_Witness ==
    /\ TestReuseDone
    /\ op = "push" /\ arg = 14 /\ ret = RetIndex(0)

\* C4 as stated: after the same scenario index 4 holds 14, index 3 holds 13,
\* index 2 holds 12, index 1 holds 11 and index 0 holds 10.
C4_AsStated ==
    TestReuseDone =>
        \A i \in 0..(TestPops - 1) : get(data, i) = RetSome(10 + i)

\* C4 amended: after the same scenario index 4 holds 10, index 3 holds 11,
\* index 2 holds 12, index 1 holds 13 and index 0 holds 14 (the j-th of the
\* five insertions lands at index 4 - j).
C4_Amended ==
    TestReuseDone =>
        \A j \in 0..(TestPops - 1) : At(data, TestPops - 1 - j) = Occupied(TestLen + j)

\* the scenario is over and the first refill value, 10, sits at index 4
C4_Witness ==
    /\ TestReuseDone
    /\ get(data, 4) = RetSome(10)
    /\ free = None

\* the step is a call of `name` (every call sets op; a step that leaves all
\* variables alone is a stuttering step and is not looked at)
Called(name) == op' = name

\* C1: pop(index) with any index >= upper_bound(), in particular with index
\* = upper_bound(), returns absent, does not panic and leaves data and free
\* unchanged.
C1_PopOutOfBoundsAbsent ==
    [][(Called("pop") /\ arg' >= upper_bound(data)) =>
            /\ ret' = RetNone
            /\ data' = data
            /\ free' = free]_vars

\* C2: whenever a slot is vacant, push returns the index popped most
\* recently among those not reused since; so once indices 0..k-1 have been
\* popped in ascending order, the j-th push that follows (0-indexed, when
\* 0..k-1-j are the ones not yet reused) returns k-1-j.
C2_LifoReuse ==
    [][Called("push") =>
            /\ removed /= << >> => ret' = RetIndex(Last(removed))
            /\ \A k \in 1..Len(data) : \A j \in 0..(k - 1) :
                  removed = [x \in 1..(k - j) |-> x - 1] =>
                      ret' = RetIndex(k - 1 - j)]_vars

\* 0 and 1 were popped and not reused, in this order, then a push went to
\* 1; 0 is the next to be reused
C2_Witness ==
    /\ op = "push" /\ ret = RetIndex(1)
    /\ removed = <<0>>
    /\ free = Some(0)
    /\ Len(data) >= 3 /\ IsOccupied(At(data, 2))

\* C5: pop(i) on an index i < upper_bound() whose slot is Vacant returns
\* absent and changes nothing (data, with the link stored in slot i, and
\* free), so a second pop of the same index right after a successful one
\* returns absent and leaves the free list as the first one left it.
C5_PopVacantNoChange ==
    [][Called("pop") =>
            /\ (arg' < upper_bound(data) /\ IsVacant(At(data, arg'))) =>
                  /\ ret' = RetNone
                  /\ data' = data
                  /\ free' = free
            /\ (op = "pop" /\ arg' = arg /\ ret \notin {RetNone, Panic}) =>
                  /\ ret' = RetNone
                  /\ data' = data
                  /\ free' = free]_vars

\* a pop has just returned absent for a vacant slot that is not the head of
\* the free list
C5_Witness ==
    /\ op = "pop" /\ ret = RetNone
    /\ arg < upper_bound(data) /\ IsVacant(At(data, arg))
    /\ free /= None /\ free /= Some(arg)

\* C6: as long as nothing has been removed, the i-th push (0-based) returns
\* i, upper_bound() is the number of pushes made so far, and get(i) is the
\* value given to the i-th push, for every i.
C6_PushOnly ==
    pristine =>
        /\ upper_bound(data) = Len(log)
        /\ op = "push" => ret = RetIndex(Len(log) - 1)
        /\ \A i \in 0..(Len(log) - 1) : get(data, i) = RetSome(log[i + 1])

\* MaxLen pushes and no removal, the values not all equal
C6_Witness ==
    /\ pristine /\ op = "push"
    /\ Len(log) = MaxLen
    /\ log[1] /= log[MaxLen]

\* C7: once pop(i) has returned a value, get(i) is absent in every state
\* until a push returns i; and when a push returns i, get(i) is the value
\* given to that push.
C7_AbsentUntilReuse ==
    [][/\ \A i \in Range(removed') : get(data', i) = RetNone
       /\ (Called("push") /\ ret' /= Panic) =>
              get(data', ret'[2]) = RetSome(arg')]_vars

\* a push of 1 has reused index 0 while another popped index waits
C7_Witness ==
    /\ op = "push" /\ arg = 1 /\ ret = RetIndex(0)
    /\ removed /= << >>
    /\ Len(data) > 1

\* C8: a push, and a pop of any index other than j, leave an occupied slot
\* j occupied with the same value; the value behind a handle is the one
\* given to the push that returned it until pop is called on the handle.
C8_IndexStability ==
    [][/\ \A j \in 0..(upper_bound(data) - 1) :
              (IsOccupied(At(data, j)) /\ ~(Called("pop") /\ arg' = j)) =>
                  /\ j < upper_bound(data')
                  /\ At(data', j) = At(data, j)
       /\ \A j \in DOMAIN held' : get(data', j) = RetSome(held'[j])]_vars

\* a live handle has survived pops and a reuse of the slots around it
C8_Witness ==
    /\ 1 \in DOMAIN held /\ held[1] = 1
    /\ op = "push" /\ ret = RetIndex(0)
    /\ removed /= << >>

\* C9: pop(i) on an occupied slot i returns the value the slot holds (the
\* one given to the last push that returned i), makes slot i Vacant with
\* the old free as its link, sets free to i and leaves upper_bound() alone.
C9_PopOccupied ==
    [][(/\ Called("pop")
        /\ arg' < upper_bound(data)
        /\ IsOccupied(At(data, arg'))) =>
            /\ ret' = RetSome(At(data, arg')[2])
            /\ arg' \in DOMAIN held /\ ret' = RetSome(held[arg'])
            /\ At(data', arg') = Vacant(free)
            /\ free' = Some(arg')
            /\ upper_bound(data') = upper_bound(data)]_vars

\* a pop returned the value of a slot and linked it in front of an older
\* vacant slot
C9_Witness ==
    /\ op = "pop" /\ ret = RetSome(1)
    /\ free = Some(arg)
    /\ At(data, arg) /= Vacant(None)

\* C10: get(index) and get_mut(index) return the value of the slot exactly
\* when index < upper_bound() and the slot is Occupied, absent otherwise
\* (also for index >= upper_bound()); they never panic and leave data and
\* free unchanged.
C10_GetIffOccupied ==
    [][(Called("get") \/ Called("get_mut")) =>
            /\ \/ /\ arg' < upper_bound(data)
                  /\ At(data, arg')[1] = "Occupied"
                  /\ ret' = RetSome(At(data, arg')[2])
               \/ /\ arg' >= upper_bound(data) \/ At(data, arg')[1] = "Vacant"
                  /\ ret' = RetNone
            /\ data' = data
            /\ free' = free]_vars

\* get has answered absent for a vacant slot inside the bounds
C10_WitnessGet ==
    /\ op = "get" /\ ret = RetNone
    /\ arg < upper_bound(data) /\ IsVacant(At(data, arg))

\* C11: veclist[index], shared or mutable, panics exactly when get(index)
\* is absent (slot vacant or index past the end); otherwise it yields what
\* get(index) yields, never a default or a stale value.
C11_IndexPanicsIffAbsent ==
    [][(Called("index") \/ Called("index_mut")) =>
            /\ (ret' = Panic) <=>
                  (arg' >= upper_bound(data) \/ IsVacant(At(data, arg')))
            /\ (ret' = Panic) <=> (get(data, arg') = RetNone)
            /\ (ret' /= Panic) => (ret' = get(data, arg'))]_vars

\* veclist[i] has panicked on a vacant slot inside the bounds
C11_Witness ==
    /\ op = "index" /\ ret = Panic
    /\ arg < upper_bound(data) /\ IsVacant(At(data, arg))

\* C12: upper_bound() never decreases: pop, get, get_mut and indexing leave
\* it unchanged and a push leaves it unchanged or adds exactly 1.
C12_UpperBoundMonotone ==
    [][/\ upper_bound(data') >= upper_bound(data)
       /\ ~Called("push") => upper_bound(data') = upper_bound(data)
       /\ Called("push") =>
              upper_bound(data') \in {upper_bound(data), upper_bound(data) + 1}]_vars

\* a pop has returned a value from a full-length list and the length stayed
C12_Witness ==
    /\ op = "pop" /\ ret /= RetNone /\ ret /= Panic
    /\ upper_bound(data) = MaxLen

\* C13: every index a push has returned is < upper_bound() and every index
\* in [0, upper_bound()) has been returned by some push.
C13_AssignedIsPrefix ==
    assigned = 0..(upper_bound(data) - 1)

\* several indices were assigned and one of them was given out twice
C13_Witness ==
    /\ Cardinality(assigned) >= 3
    /\ op = "push" /\ ret = RetIndex(1)
    /\ upper_bound(data) >= 3

\* C14: a VecList made by with_capacity(n) and one made by new() both start
\* with upper_bound() = 0 and free absent, and after the same calls of push,
\* pop and get they have returned the same index or result at every call
\* and answer every get alike.
C14_WithCapacityLikeNew ==
    (twin.turn = "even") =>
        /\ (op = "with_capacity") =>
              /\ twin.s.op = "new"
              /\ upper_bound(data) = 0 /\ free = None
              /\ upper_bound(twin.s.data) = 0 /\ twin.s.free = None
        /\ (op /= "with_capacity") =>
              /\ op = twin.s.op /\ arg = twin.s.arg
              /\ ret = twin.s.ret
        /\ upper_bound(data) = upper_bound(twin.s.data)
        /\ \A i \in Indices : get(data, i) = get(twin.s.data, i)

\* both have reused index 0 by the same push while their capacities differ
C14_Witness ==
    /\ twin.turn = "even"
    /\ op = "push" /\ ret = RetIndex(0) /\ twin.s.ret = RetIndex(0)
    /\ upper_bound(data) >= 2
    /\ cap /= twin.s.cap

\* the indices met by following the links from f through d, at most fuel
\* of them; the walk stops at None, at an index past the end and at an
\* occupied slot
RECURSIVE FreeWalk(_, _, _)
FreeWalk(d, f, fuel) ==
    IF f = None \/ fuel = 0 THEN << >>
    ELSE IF f[1] >= Len(d) THEN <<f[1]>>
    ELSE IF IsOccupied(At(d, f[1])) THEN <<f[1]>>
    ELSE <<f[1]>> \o FreeWalk(d, At(d, f[1])[2], fuel - 1)

VacantSet(d) == {i \in 0..(Len(d) - 1) : IsVacant(At(d, i))}
OccupiedSet(d) == {i \in 0..(Len(d) - 1) : IsOccupied(At(d, i))}

\* C15: following the links from free ends (no cycle), meets no index
\* twice, meets only indices < upper_bound() whose slots are Vacant and
\* meets every Vacant slot; so every index below upper_bound() is Occupied
\* or on the free list, and upper_bound() is the number of occupied slots
\* plus the length of the free list.
C15_FreeListWellFormed ==
    LET walk == FreeWalk(data, free, upper_bound(data) + 1) IN
    /\ Len(walk) <= upper_bound(data)
    /\ \A x, y \in DOMAIN walk : x /= y => walk[x] /= walk[y]
    /\ \A x \in DOMAIN walk :
          walk[x] < upper_bound(data) /\ IsVacant(At(data, walk[x]))
    /\ Range(walk) = VacantSet(data)
    /\ OccupiedSet(data) \cup Range(walk) = 0..(upper_bound(data) - 1)
    /\ upper_bound(data) = Cardinality(OccupiedSet(data)) + Len(walk)

\* a free list of three slots, not in index order, beside an occupied slot
C15_Witness ==
    /\ FreeWalk(data, free, upper_bound(data) + 1) = <<1, 3, 0>>
    /\ IsOccupied(At(data, 2))

\* C16: push never panics: whenever free is present it is < upper_bound()
\* and names a Vacant slot, so neither the debug assertion, nor
\* expect_vacant, nor the unwrap in push fires; and pop of an index inside
\* the bounds never panics (expect_occupied in Node::free does not fire).
C16_PushNeverPanics ==
    [][/\ Called("push") => ret' /= Panic
       /\ (Called("pop") /\ arg' < upper_bound(data)) => ret' /= Panic
       /\ free' /= None =>
              /\ free'[1] < upper_bound(data')
              /\ IsVacant(At(data', free'[1]))]_vars

\* a push has found free present and has left it present
C16_Witness ==
    /\ op = "push" /\ ret /= Panic
    /\ ret[2] < upper_bound(data) - 1
    /\ free /= None
    /\ live = MaxLen - 1

\* C17: push takes one of two branches.  With free = Some(i) it returns i,
\* slot i becomes Occupied(value), free becomes the link slot i held and
\* upper_bound() stays; with free absent it returns the old upper_bound(),
\* appends Occupied(value), upper_bound() grows by 1 and free stays absent.
\* So data grows only when no slot is vacant.
C17_PushBranches ==
    [][Called("push") =>
            /\ \/ /\ free /= None
                  /\ free[1] < upper_bound(data)
                  /\ ret' = RetIndex(free[1])
                  /\ data' = [data EXCEPT ![free[1] + 1] = <<"Occupied", arg'>>]
                  /\ free' = At(data, free[1])[2]
                  /\ upper_bound(data') = upper_bound(data)
               \/ /\ free = None
                  /\ ret' = RetIndex(upper_bound(data))
                  /\ data' = data \o << <<"Occupied", arg'>> >>
                  /\ upper_bound(data') = upper_bound(data) + 1
                  /\ free' = None
            /\ upper_bound(data') > upper_bound(data) => VacantSet(data) = {}]_vars

\* a push took the first branch and free moved on to the next link
C17_Witness ==
    /\ op = "push" /\ ret = RetIndex(2)
    /\ free = Some(0)
    /\ At(data, 2) = Occupied(arg)
    /\ upper_bound(data) = MaxLen

\* C18: push never overwrites a live value: the index it returns named a
\* slot that was Vacant or did not exist, and is no handle held at that
\* moment; no occupied slot is changed by a push; and the number of
\* occupied slots is the number of pushes that returned minus the number
\* of pops that returned a value.
C18_NoLiveOverwrite ==
    [][/\ (Called("push") /\ ret' /= Panic) =>
              /\ ret'[2] >= upper_bound(data) \/ IsVacant(At(data, ret'[2]))
              /\ ret'[2] \notin DOMAIN held
       /\ Called("push") =>
              \A j \in OccupiedSet(data) :
                  j < upper_bound(data') /\ At(data', j) = At(data, j)
       /\ Cardinality(OccupiedSet(data')) = live']_vars

\* a push has filled the last vacant slot between live values
C18_Witness ==
    /\ op = "push" /\ ret = RetIndex(1)
    /\ live = MaxLen
    /\ Cardinality(DOMAIN held) = MaxLen
    /\ ~pristine

====
